---------------------------- MODULE Spec2Model ----------------------------
(* A model of marne-bot (src/src/main.rs): the cycle driver loop that polls *)
(* the marne.io server list, matches the monitored server, renders the map  *)
(* image and publishes presence text and avatar, and the warp liveness      *)
(* probe that reads the shared last_update minute.                          *)
(*                                                                          *)
(* Text is modelled as a sequence of tokens.  A token is a run of           *)
(* characters: "/" is always a token of its own, a decimal digit or sign is *)
(* a token of its own, and every other token is a maximal run of non-slash  *)
(* characters.  Non-ASCII characters of the source's literals are written   *)
(* in ASCII (the shrug prefix of the fallback text, two letters of one map  *)
(* name); the tokens are opaque to every operation modelled here.           *)
EXTENDS Integers, Sequences, FiniteSets, TLC

VARIABLES
    clock,            \* Utc::now().timestamp(), in seconds
    cfg,              \* the Static configuration loaded by ready
    last_update,      \* the shared AtomicI64
    driver_pc,        \* position of the cycle driver task
    wake,             \* deadline of the driver's tokio::time::sleep
    resp,             \* outcome of the poll request, while status is running
    matched,          \* index of the entry the server loop stopped at (0: none)
    outcome,          \* how the cycle's call of status ended
    image_req,        \* arguments of the gen_img call in flight
    overlay,          \* the draw_text_mut call of the cycle's render
    image_loc,        \* the path gen_img returned
    stores,           \* last_update.store calls since the cycle started
    calls,            \* publisher operations invoked in the current cycle
    activity,         \* presence text shown by the channel
    avatar,           \* avatar shown by the channel
    probe_pc,         \* position of the probe handler closure
    last_update_i64,  \* the closure's local copy of last_update
    now_minutes,      \* the closure's local reading of the clock
    reply,            \* the reply the closure built
    ref_update,       \* last_update of the run whose cycles end at the same
                      \* times and all succeed
    ref_i64,          \* what the closure loads in that run
    ready_events,     \* deliveries of the session-ready event
    loops,            \* the cycle loops spawned by the deliveries after the
                      \* first, each with its own counter
    json_string,      \* a body text under the BOM strip
    json_before,      \* that text before the latest strip
    stripped          \* strips applied to it

vars == <<clock, cfg, last_update, driver_pc, wake, resp, matched, outcome, image_req,
          overlay, image_loc, stores, calls, activity, avatar, probe_pc,
          last_update_i64, now_minutes, reply, ref_update, ref_i64, ready_events,
          loops,
          json_string, json_before, stripped>>

-----------------------------------------------------------------------------
(* Bounds of the model *)

MaxTicks == 9
TickSecs == 45
MaxServers == 2
MaxTokens == 4
MaxReady == 2
MaxStrips == 2

(* Program constants *)

SleepSecs == 60
SecsPerMinute == 60
StaleAfter == 5
BomLead == 239

\* The epoch second the process starts at, scaled down: any start past
\* StaleAfter minutes behaves alike, since last_update starts at 0.
StartClock == 10 * SecsPerMinute

-----------------------------------------------------------------------------
(* Option<T>: None is the empty sequence, Some(v) is <<v>> *)

None == <<>>
Some(v) == <<v>>
IsSome(o) == Len(o) = 1
Unwrap(o) == o[1]

-----------------------------------------------------------------------------
(* LookupTables: the three HashMaps built in status *)

maps ==
    "MP_Amiens" :> "Amiens"
    @@ "MP_Chateau" :> "Ballroom Blitz"
    @@ "MP_Desert" :> "Sinai Desert"
    @@ "MP_FaoFortress" :> "Fao Fortress"
    @@ "MP_Forest" :> "Argonne Forest"
    @@ "MP_ItalianCoast" :> "Empire's Edge"
    @@ "MP_MountainFort" :> "Monte Grappa"
    @@ "MP_Scar" :> "St Quentin Scar"
    @@ "MP_Suez" :> "Suez"
    @@ "MP_Giant" :> "Giant's Shadow"
    @@ "MP_Fields" :> "Soissons"
    @@ "MP_Graveyard" :> "Rupture"
    @@ "MP_Underworld" :> "Fort De Vaux"
    @@ "MP_Verdun" :> "Verdun Heights"
    @@ "MP_ShovelTown" :> "Prise de Tahure"
    @@ "MP_Trench" :> "Nivelle Nights"
    @@ "MP_Bridge" :> "Brusilov Keep"
    @@ "MP_Islands" :> "Albion"
    @@ "MP_Ravines" :> "Lupkow Pass"
    @@ "MP_Tsaritsyn" :> "Tsaritsyn"
    @@ "MP_Valley" :> "Galicia"
    @@ "MP_Volga" :> "Volga River"
    @@ "MP_Beachhead" :> "Cape Helles"
    @@ "MP_Harbor" :> "Zeebrugge"
    @@ "MP_Naval" :> "Heligoland Bight"
    @@ "MP_Ridge" :> "Achi Baba"
    @@ "MP_Alps" :> "Razor's Edge"
    @@ "MP_Blitz" :> "London Calling"
    @@ "MP_Hell" :> "Passchendaele"
    @@ "MP_London" :> "London Calling: Scourge"
    @@ "MP_Offensive" :> "River Somme"
    @@ "MP_River" :> "Caporetto"
    @@ "MP_ArcticFjell" :> "Fjell 652"
    @@ "MP_ArcticFjord" :> "Narvik"
    @@ "MP_Arras" :> "Arras"
    @@ "MP_Devastation" :> "Devastation"
    @@ "MP_Escaut" :> "twisted steel"
    @@ "MP_Foxhunt" :> "Aerodrome"
    @@ "MP_Halfaya" :> "Hamada"
    @@ "MP_Rotterdam" :> "Rotterdam"
    @@ "MP_Hannut" :> "Panzerstorm"
    @@ "MP_Crete" :> "Mercury"
    @@ "MP_Kalamas" :> "Marita"
    @@ "MP_Provence" :> "Provence"
    @@ "MP_SandAndSea" :> "Al sudan"
    @@ "MP_Bunker" :> "Operation Underground"
    @@ "MP_IwoJima" :> "Iwo jima"
    @@ "MP_TropicIslands" :> "Pacific storm"
    @@ "MP_WakeIsland" :> "Wake island"
    @@ "MP_Jungle" :> "Solomon islands"
    @@ "MP_Libya" :> "Al marj encampment"
    @@ "MP_Norway" :> "lofoten islands"
    @@ "DK_Norway" :> "Halvoy"
    @@ "MP_Escaut_US" :> "Twisted Steel US"
    @@ "MP_Hannut_US" :> "Panzerstorm US"
    @@ "MP_GOps_Chapter2_Arras" :> "Arras (Chapter 2)"
    @@ "MP_WE_Fortress_Devastation" :> "Devastation (Fortress)"
    @@ "MP_WE_Fortress_Halfaya" :> "Hamada (Fortress)"
    @@ "MP_WE_Grind_ArcticFjord" :> "Narvik (Grind)"
    @@ "MP_WE_Grind_Devastation" :> "Devastation (Grind)"
    @@ "MP_WE_Grind_Escaut" :> "Twisted Steel (Grind)"
    @@ "MP_WE_Grind_Rotterdam" :> "Rotterdam (Grind)"

images ==
    "MP_Amiens" :> "https://cdn.gametools.network/maps/bf1/MP_Amiens_LandscapeLarge-e195589d.jpg"
    @@ "MP_Chateau" :> "https://cdn.gametools.network/maps/bf1/MP_Chateau_LandscapeLarge-244d5987.jpg"
    @@ "MP_Desert" :> "https://cdn.gametools.network/maps/bf1/MP_Desert_LandscapeLarge-d8f749da.jpg"
    @@ "MP_FaoFortress" :> "https://cdn.gametools.network/maps/bf1/MP_FaoFortress_LandscapeLarge-cad1748e.jpg"
    @@ "MP_Forest" :> "https://cdn.gametools.network/maps/bf1/MP_Forest_LandscapeLarge-dfbbe910.jpg"
    @@ "MP_ItalianCoast" :> "https://cdn.gametools.network/maps/bf1/MP_ItalianCoast_LandscapeLarge-1503eec7.jpg"
    @@ "MP_MountainFort" :> "https://cdn.gametools.network/maps/bf1/MP_MountainFort_LandscapeLarge-8a517533.jpg"
    @@ "MP_Scar" :> "https://cdn.gametools.network/maps/bf1/MP_Scar_LandscapeLarge-ee25fbd6.jpg"
    @@ "MP_Suez" :> "https://cdn.gametools.network/maps/bf1/MP_Suez_LandscapeLarge-f630fc76.jpg"
    @@ "MP_Giant" :> "https://cdn.gametools.network/maps/bf1/MP_Giant_LandscapeLarge-dd0b93ef.jpg"
    @@ "MP_Fields" :> "https://cdn.gametools.network/maps/bf1/MP_Fields_LandscapeLarge-5f53ddc4.jpg"
    @@ "MP_Graveyard" :> "https://cdn.gametools.network/maps/bf1/MP_Graveyard_LandscapeLarge-bd1012e6.jpg"
    @@ "MP_Underworld" :> "https://cdn.gametools.network/maps/bf1/MP_Underworld_LandscapeLarge-b6c5c7e7.jpg"
    @@ "MP_Verdun" :> "https://cdn.gametools.network/maps/bf1/MP_Verdun_LandscapeLarge-1a364063.jpg"
    @@ "MP_ShovelTown" :> "https://cdn.gametools.network/maps/bf1/MP_Shoveltown_LandscapeLarge-d0aa5920.jpg"
    @@ "MP_Trench" :> "https://cdn.gametools.network/maps/bf1/MP_Trench_LandscapeLarge-dbd1248f.jpg"
    @@ "MP_Bridge" :> "https://cdn.gametools.network/maps/bf1/MP_Bridge_LandscapeLarge-5b7f1b62.jpg"
    @@ "MP_Islands" :> "https://cdn.gametools.network/maps/bf1/MP_Islands_LandscapeLarge-c9d8272b.jpg"
    @@ "MP_Ravines" :> "https://cdn.gametools.network/maps/bf1/MP_Ravines_LandscapeLarge-1fe0d3f6.jpg"
    @@ "MP_Tsaritsyn" :> "https://cdn.gametools.network/maps/bf1/MP_Tsaritsyn_LandscapeLarge-2dbd3bf5.jpg"
    @@ "MP_Valley" :> "https://cdn.gametools.network/maps/bf1/MP_Valley_LandscapeLarge-8dc1c7ca.jpg"
    @@ "MP_Volga" :> "https://cdn.gametools.network/maps/bf1/MP_Volga_LandscapeLarge-6ac49c25.jpg"
    @@ "MP_Beachhead" :> "https://cdn.gametools.network/maps/bf1/MP_Beachhead_LandscapeLarge-5a13c655.jpg"
    @@ "MP_Harbor" :> "https://cdn.gametools.network/maps/bf1/MP_Harbor_LandscapeLarge-d382c7ea.jpg"
    @@ "MP_Naval" :> "https://cdn.gametools.network/maps/bf1/MP_Naval_LandscapeLarge-dc2e8daf.jpg"
    @@ "MP_Ridge" :> "https://cdn.gametools.network/maps/bf1/MP_Ridge_LandscapeLarge-8c057a19.jpg"
    @@ "MP_Alps" :> "https://cdn.gametools.network/maps/bf1/MP_Alps_LandscapeLarge-7ab30e3e.jpg"
    @@ "MP_Blitz" :> "https://cdn.gametools.network/maps/bf1/MP_Blitz_LandscapeLarge-5e26212f.jpg"
    @@ "MP_Hell" :> "https://cdn.gametools.network/maps/bf1/MP_Hell_LandscapeLarge-7176911c.jpg"
    @@ "MP_London" :> "https://cdn.gametools.network/maps/bf1/MP_London_LandscapeLarge-0b51fe46.jpg"
    @@ "MP_Offensive" :> "https://cdn.gametools.network/maps/bf1/MP_Offensive_LandscapeLarge-6dabdea3.jpg"
    @@ "MP_River" :> "https://cdn.gametools.network/maps/bf1/MP_River_LandscapeLarge-21443ae9.jpg"
    @@ "MP_ArcticFjell" :> "https://cdn.gametools.network/maps/bfv/1080p_MP_ArcticFjell-df3c1290.jpg"
    @@ "MP_ArcticFjord" :> "https://cdn.gametools.network/maps/bfv/1080p_MP_ArcticFjord-7ba29138.jpg"
    @@ "MP_Arras" :> "https://cdn.gametools.network/maps/bfv/1080p_MP_Arras-4b610505.jpg"
    @@ "MP_Devastation" :> "https://cdn.gametools.network/maps/bfv/1080p_MP_Devastation-623dea60.jpg"
    @@ "MP_Escaut" :> "https://cdn.gametools.network/maps/bfv/1080p_MP_Escaut-9764d1fb.jpg"
    @@ "MP_Foxhunt" :> "https://cdn.gametools.network/maps/bfv/1080p_MP_AfricanFox-8ad380a5.jpg"
    @@ "MP_Halfaya" :> "https://cdn.gametools.network/maps/bfv/1080p_MP_AfricanHalfaya-31165f9b.jpg"
    @@ "MP_Rotterdam" :> "https://cdn.gametools.network/maps/bfv/1080p_MP_Rotterdam-55632240.jpg"
    @@ "MP_Hannut" :> "https://cdn.gametools.network/maps/bfv/1080p_MP_Hannut-ebbe7197.jpg"
    @@ "MP_Crete" :> "https://cdn.gametools.network/maps/bfv/1080p_MP_Crete-304a202d.jpg"
    @@ "MP_Kalamas" :> "https://cdn.gametools.network/maps/bfv/1080p_MP_Kalamas-c64c8451.jpg"
    @@ "MP_Provence" :> "https://cdn.gametools.network/maps/bfv/1080p_MP_ProvenceXL-a950ad3e.jpg"
    @@ "MP_SandAndSea" :> "https://cdn.gametools.network/maps/bfv/1080p_MP_SandAndSea-f071e6f7.jpg"
    @@ "MP_Bunker" :> "https://cdn.gametools.network/maps/bfv/1080p_MP_Bunker-7b518876.jpg"
    @@ "MP_IwoJima" :> "https://cdn.gametools.network/maps/bfv/1080p_MP_IwoJima-760850fc.jpg"
    @@ "MP_TropicIslands" :> "https://cdn.gametools.network/maps/bfv/1080p_MP_TropicIslands-9e0a41c3.jpg"
    @@ "MP_WakeIsland" :> "https://cdn.gametools.network/maps/bfv/1080p_MP_WakeIsland-3238b455.jpg"
    @@ "MP_Jungle" :> "https://cdn.gametools.network/maps/bfv/1080p_MP_Jungle-714218ce.jpg"
    @@ "MP_Libya" :> "https://cdn.gametools.network/maps/bfv/1080p_MP_Libya-bd54b090.jpg"
    @@ "MP_Norway" :> "https://cdn.gametools.network/maps/bfv/1080p_MP_Norway-7d6d6300.jpg"
    @@ "DK_Norway" :> "https://cdn.gametools.network/maps/bfv/1080p_MP_Norway-7d6d6300.jpg"
    @@ "MP_Escaut_US" :> "https://cdn.gametools.network/maps/bfv/1080p_MP_Escaut-9764d1fb.jpg"
    @@ "MP_Hannut_US" :> "https://cdn.gametools.network/maps/bfv/1080p_MP_Hannut-ebbe7197.jpg"
    @@ "MP_GOps_Chapter2_Arras" :> "https://cdn.gametools.network/maps/bfv/1080p_MP_Arras-4b610505.jpg"
    @@ "MP_WE_Fortress_Devastation" :> "https://cdn.gametools.network/maps/bfv/1080p_MP_Devastation-623dea60.jpg"
    @@ "MP_WE_Fortress_Halfaya" :> "https://cdn.gametools.network/maps/bfv/1080p_MP_AfricanHalfaya-31165f9b.jpg"
    @@ "MP_WE_Grind_ArcticFjord" :> "https://cdn.gametools.network/maps/bfv/1080p_MP_ArcticFjord-7ba29138.jpg"
    @@ "MP_WE_Grind_Devastation" :> "https://cdn.gametools.network/maps/bfv/1080p_MP_Devastation-623dea60.jpg"
    @@ "MP_WE_Grind_Escaut" :> "https://cdn.gametools.network/maps/bfv/1080p_MP_Escaut-9764d1fb.jpg"
    @@ "MP_WE_Grind_Rotterdam" :> "https://cdn.gametools.network/maps/bfv/1080p_MP_Rotterdam-55632240.jpg"

small_modes ==
    "Conquest0" :> "CQ"
    @@ "Rush0" :> "RS"
    @@ "BreakThrough0" :> "SO"
    @@ "BreakthroughLarge0" :> "OP"
    @@ "Possession0" :> "WP"
    @@ "TugOfWar0" :> "FL"
    @@ "AirAssault0" :> "AA"
    @@ "Domination0" :> "DM"
    @@ "TeamDeathMatch0" :> "TM"
    @@ "ZoneControl0" :> "RS"

\* HashMap::get(key).unwrap_or(&default).  A key made of several tokens
\* holds a '/', which no table key does.
GetOr(table, key, default) ==
    IF Len(key) = 1 /\ key[1] \in DOMAIN table THEN <<table[key[1]]>> ELSE default

-----------------------------------------------------------------------------
(* Formatting *)

Digit(d) == CASE d = 0 -> "0" [] d = 1 -> "1" [] d = 2 -> "2" [] d = 3 -> "3"
              [] d = 4 -> "4" [] d = 5 -> "5" [] d = 6 -> "6" [] d = 7 -> "7"
              [] d = 8 -> "8" [] d = 9 -> "9"

RECURSIVE Digits(_)
Digits(n) == IF n < 10 THEN <<Digit(n)>> ELSE Append(Digits(n \div 10), Digit(n % 10))

\* format!("{}", n) of an i64
Display(n) == IF n < 0 THEN <<"-">> \o Digits(-n) ELSE Digits(n)

-----------------------------------------------------------------------------
(* Probe handler: the warp closure *)

\* Utc::now().timestamp() / 60: i64 division, which truncates toward zero
EpochMinute(secs) ==
    IF secs >= 0 THEN secs \div SecsPerMinute ELSE 0 - ((0 - secs) \div SecsPerMinute)

\* ProbeReply with the comparison off by one
ProbeReplyAtLeast(last, now) ==
    IF (now - last) >= StaleAfter
    THEN [status |-> 503, body |-> Display(now - last)]
    ELSE [status |-> 200, body |-> Display(now - last)]

ProbeReply(last, now) ==
    IF (now - last) > StaleAfter
    THEN [status |-> 503, body |-> Display(now - last)]
    ELSE [status |-> 200, body |-> Display(now - last)]

NoReply == [status |-> 0, body |-> <<>>]

-----------------------------------------------------------------------------
(* Poller: get *)

\* A response body is a sequence of units: a character with its UTF-8
\* bytes, or a whole JSON document ('{' ... '}').
Char(bs) == [k |-> "char", bytes |-> bs]
Bom == Char(<<239, 187, 191>>)          \* U+FEFF
Fullwidth == Char(<<239, 188, 129>>)    \* U+FF01, another character led by 239
Letter == Char(<<120>>)                 \* 'x'
Doc(list) == [k |-> "doc", shape |-> TRUE, servers |-> list]
OtherDoc == [k |-> "doc", shape |-> FALSE, servers |-> <<>>]   \* {"error": ...}

\* What is left of a document when its first n chars are taken off
Rest(doc, n) == [k |-> "rest", doc |-> doc, skipped |-> n]

\* The bytes a document starts with, up to the end of its first key:
\* {"servers" and {"error"
DocHead(doc) ==
    IF doc.shape THEN <<123, 34, 115, 101, 114, 118, 101, 114, 115, 34>>
    ELSE <<123, 34, 101, 114, 114, 111, 114, 34>>

\* json_string.as_bytes()[i]; indexing past the end panics.  Of a document,
\* whole or cut, the first byte.
Bytes(unit) ==
    CASE unit.k = "char" -> unit.bytes
      [] unit.k = "doc" -> <<DocHead(unit)[1]>>
      [] unit.k = "rest" -> <<DocHead(unit.doc)[unit.skipped + 1]>>
FirstByte(s) == Bytes(s[1])[1]

\* String::remove(0): removes the first char, whatever its width; of a
\* document that is its '{', and the rest of its text stays
Remove0(s) ==
    CASE s[1].k = "char" -> Tail(s)
      [] s[1].k = "doc" -> <<Rest(s[1], 1)>> \o Tail(s)
      [] s[1].k = "rest" -> <<Rest(s[1].doc, s[1].skipped + 1)>> \o Tail(s)

\* StripBom without the test of the first byte
StripBomAlways(s) == Remove0(s)

\* lines 168-171
StripBom(s) == IF FirstByte(s) = BomLead THEN Remove0(s) ELSE s

\* serde_json::from_str::<MarneServerList>
FromStr(s) ==
    IF Len(s) = 1 /\ s[1].k = "doc" /\ s[1].shape
    THEN [ok |-> TRUE, servers |-> s[1].servers]
    ELSE [ok |-> FALSE, servers |-> <<>>]

\* The poll request ends in a transport error of send(), or in a response
\* whose body text() reads or fails to read (unwrap_or_default: "").
SendErr == [kind |-> "send_err", text_ok |-> FALSE, body |-> <<>>]
Response(ok, body) == [kind |-> "response", text_ok |-> ok, body |-> body]

JsonString(r) == IF r.text_ok THEN r.body ELSE <<>>

\* get: send, text, the BOM strip, from_str
Get(r) ==
    IF r.kind = "send_err"
    THEN [kind |-> "err", err |-> "network_error", servers |-> <<>>]
    ELSE IF Len(JsonString(r)) = 0
    THEN [kind |-> "panic", err |-> "index_out_of_bounds", servers |-> <<>>]
    ELSE LET parsed == FromStr(StripBom(JsonString(r)))
         IN  IF parsed.ok
             THEN [kind |-> "ok", err |-> "", servers |-> parsed.servers]
             ELSE [kind |-> "err", err |-> "parse_error", servers |-> <<>>]

-----------------------------------------------------------------------------
(* Matcher: the server loop of status *)

\* right_server with the id checked before the name
right_server_by_id(statics, server) ==
    IF IsSome(statics.server_id)
    THEN server.id = Unwrap(statics.server_id)
    ELSE IF IsSome(statics.server_name)
         THEN server.name = Unwrap(statics.server_name)
         ELSE FALSE

right_server(statics, server) ==
    IF IsSome(statics.server_name)
    THEN server.name = Unwrap(statics.server_name)
    ELSE IF IsSome(statics.server_id)
         THEN server.id = Unwrap(statics.server_id)
         ELSE FALSE

\* for server in status.servers { if right_server { ...; return } }:
\* the index of the entry the loop stops at, 0 when it runs to the end
\* ServerLoop without the return: the last matching entry wins
ServerLoopLast(statics, servers, i) ==
    LET hits == {j \in i..Len(servers) : right_server(statics, servers[j])}
    IN  IF hits = {} THEN 0 ELSE CHOOSE j \in hits : \A k \in hits : k <= j

RECURSIVE ServerLoop(_, _, _)
ServerLoop(statics, servers, i) ==
    IF i > Len(servers) THEN 0
    ELSE IF right_server(statics, servers[i]) THEN i
    ELSE ServerLoop(statics, servers, i + 1)

\* Regex [^\/]+$ .find(map_name): the leftmost match is the longest run of
\* non-slash characters that reaches the end of the text
RECURSIVE RegexFind(_)
RegexFind(s) ==
    IF Len(s) = 0 \/ s[Len(s)] = "/" THEN None
    ELSE LET before == RegexFind(SubSeq(s, 1, Len(s) - 1))
         IN  IF IsSome(before) THEN Some(Unwrap(before) \o <<s[Len(s)]>>)
             ELSE Some(<<s[Len(s)]>>)

\* internal_map without the regex: the raw map name
internal_map_raw(map_name) == map_name

internal_map(map_name) ==
    LET location == RegexFind(map_name)
    IN  IF IsSome(location) THEN Unwrap(location) ELSE map_name

\* server_info with the two counts exchanged
server_info_max_first(server) ==
    Display(server.max_players) \o <<"/">> \o Display(server.current_players)
        \o <<" - ">> \o GetOr(maps, internal_map(server.map_name), internal_map(server.map_name))

\* format!("{}/{} - {}", current_players, max_players, display name)
server_info(server) ==
    Display(server.current_players) \o <<"/">> \o Display(server.max_players)
        \o <<" - ">> \o GetOr(maps, internal_map(server.map_name), internal_map(server.map_name))

\* small_mode with the mode key itself as the default
small_mode_raw(server) == GetOr(small_modes, server.game_mode, server.game_mode)

\* the arguments of the gen_img call
small_mode(server) == GetOr(small_modes, server.game_mode, <<>>)
map_image(server) == GetOr(images, internal_map(server.map_name), internal_map(server.map_name))

-----------------------------------------------------------------------------
(* Renderer: gen_img *)

RECURSIVE Pow2(_)
Pow2(n) == IF n = 0 THEN 1 ELSE 2 * Pow2(n - 1)

\* floor(log2(n)) for n >= 1, and -1 for n = 0
RECURSIVE Log2(_)
Log2(n) == IF n = 0 THEN 0 - 1 ELSE IF n = 1 THEN 0 ELSE 1 + Log2(n \div 2)

\* (a / b) as i32 for f32 a and b whose exact quotient is num / den, below
\* 2^24: the f32 division rounds the quotient to 24 significant bits (ties
\* to even), the cast truncates.  With f the integer part and 2^e <= f, the
\* rounding reaches f + 1 when the quotient is within half an ulp, 2^(e-24),
\* of it.
TruncF32(num, den) ==
    LET f == num \div den
        gap == (f + 1) * den - num
    IN  IF gap <= den \div Pow2(24 - Log2(f)) THEN f + 1 ELSE f

\* 4.8 as f32 is 5033165 / 2^20
F32_4_8_Num == 5033165
F32_4_8_Den == 1048576

\* draw_text with the quotients taken exactly
draw_text_exact(width, height, text) ==
    [img_size |-> [x |-> width, y |-> height],
     x |-> (2 * width) \div 7,
     y |-> (5 * height) \div 24,
     text |-> text]

\* img_size and the arguments of draw_text_mut: (img_size.x / 3.5) as i32,
\* (img_size.y / 4.8) as i32, small_mode
draw_text(width, height, text) ==
    [img_size |-> [x |-> width, y |-> height],
     x |-> TruncF32(2 * width, 7),
     y |-> TruncF32(height * F32_4_8_Den, F32_4_8_Num),
     text |-> text]

Fallback == <<"shrug server not found">>
ImagePath == <<"./map_mode.jpg">>

StatusCall(text) == [op |-> "set_activity", arg |-> text]
AvatarCall(path) == [op |-> "edit_avatar", arg |-> path]

-----------------------------------------------------------------------------
(* Inputs *)

Alpha1 == [id |-> 1, name |-> "Alpha", map_name |-> <<"MP_Amiens">>,
           game_mode |-> <<"Conquest0">>, max_players |-> 64, current_players |-> 40]
Alpha2 == [id |-> 2, name |-> "Alpha",
           map_name |-> <<"Xpack2", "/", "Levels", "/", "MP", "/", "MP_Bridge", "/", "MP_Bridge">>,
           game_mode |-> <<"Rush0">>, max_players |-> 32, current_players |-> 7]
Beta3 == [id |-> 3, name |-> "Beta", map_name |-> <<"Mods", "/", "MP_Custom", "/">>,
          game_mode |-> <<"Custom0">>, max_players |-> 10, current_players |-> 0]
alpha1 == [id |-> 1, name |-> "alpha", map_name |-> <<"MP_Custom">>,
           game_mode |-> <<>>, max_players |-> 128, current_players |-> 105]

Servers == {Alpha1, Alpha2, Beta3, alpha1}

ServerLists == UNION {[1..n -> Servers] : n \in 0..MaxServers}

Bodies ==
    {<<>>, <<Bom>>, <<Letter>>, <<OtherDoc>>, <<Bom, OtherDoc>>}
    \cup {<<Doc(l)>> : l \in ServerLists}
    \cup {<<Bom, Doc(l)>> : l \in ServerLists}
    \cup {<<Fullwidth, Doc(l)>> : l \in ServerLists}
    \cup {<<Bom, Bom, Doc(l)>> : l \in ServerLists}

PollResults == {SendErr} \cup {Response(TRUE, b) : b \in Bodies}
                         \cup {Response(FALSE, <<>>)}

Configs == [server_name : {None, Some("Alpha"), Some("Gamma")},
            server_id : {None, Some(1), Some(3)}]

\* One poll result of each kind, for the specification that interleaves the
\* driver with the probe.
PollSample ==
    {SendErr, Response(FALSE, <<>>), Response(TRUE, <<>>), Response(TRUE, <<OtherDoc>>),
     Response(TRUE, <<Doc(<<>>)>>), Response(TRUE, <<Bom, Doc(<<Alpha1>>)>>),
     Response(TRUE, <<Doc(<<Beta3, Alpha2>>)>>)}

\* Map names: every text of up to MaxTokens tokens, a '/' or a run of other
\* characters each (two runs never adjacent), and the path of Alpha2
MapTokens == {"/", "MP_Bridge", "Xpack2"}
OneText(s) == \A i \in 1..(Len(s) - 1) : s[i] = "/" \/ s[i + 1] = "/"
MapNames ==
    {s \in UNION {[1..n -> MapTokens] : n \in 0..MaxTokens} : OneText(s)}
    \cup {Alpha2.map_name}

GameModes == {<<"Conquest0">>, <<"Custom0">>, <<>>}

\* Poll results for the map names: the list holds Alpha1 on that map, in
\* that mode
PollMapNames ==
    {Response(TRUE, <<Doc(<<[Alpha1 EXCEPT !.map_name = m, !.game_mode = g]>>)>>) :
        m \in MapNames, g \in GameModes}

\* gen_img ends in an error before the text is drawn (download, decode, the
\* save of ./info_image.jpg), in an error of the save of ./map_mode.jpg after
\* the text was drawn on the image decoded at some size, or with that save
\* done
RenderErr(kind) == [kind |-> kind, width |-> 0, height |-> 0]
SaveErr(w, h) == [kind |-> "save_err", width |-> w, height |-> h]
Rendered(w, h) == [kind |-> "ok", width |-> w, height |-> h]
RenderErrors ==
    {RenderErr("download_err"), RenderErr("decode_err"), RenderErr("save_info_err")}
RenderResults == RenderErrors \cup {SaveErr(1920, 1080), Rendered(1920, 1080)}

Widths == {1, 7, 10, 64, 1920}
Heights == {1, 24, 48, 72, 100, 1080}
RenderSizes ==
    RenderErrors \cup {Rendered(w, h) : w \in Widths, h \in Heights}
                 \cup {SaveErr(w, h) : w \in Widths, h \in Heights}

NoResp == [kind |-> "none", text_ok |-> FALSE, body |-> <<>>]

-----------------------------------------------------------------------------
(* State machine *)

DriverInit ==
    /\ clock = StartClock
    /\ cfg \in Configs
    /\ last_update = 0
    /\ driver_pc = "loop"
    /\ wake = 0
    /\ resp = NoResp
    /\ matched = 0
    /\ outcome = "none"
    /\ image_req = None
    /\ overlay = None
    /\ image_loc = None
    /\ stores = 0
    /\ calls = <<>>
    /\ activity = None
    /\ avatar = None
    /\ probe_pc = "idle"
    /\ last_update_i64 = 0
    /\ now_minutes = 0
    /\ reply = NoReply
    /\ ref_update = 0
    /\ ref_i64 = 0
    /\ ready_events = 1
    /\ loops = <<>>

NoText ==
    /\ json_string = <<>>
    /\ json_before = <<>>
    /\ stripped = 0

\* Init with last_update set to the minute of the start
InitNow ==
    /\ clock = StartClock
    /\ cfg \in Configs
    /\ last_update = EpochMinute(StartClock)
    /\ driver_pc = "loop"
    /\ wake = 0
    /\ resp = NoResp
    /\ matched = 0
    /\ outcome = "none"
    /\ image_req = None
    /\ overlay = None
    /\ image_loc = None
    /\ stores = 0
    /\ calls = <<>>
    /\ activity = None
    /\ avatar = None
    /\ probe_pc = "idle"
    /\ last_update_i64 = 0
    /\ now_minutes = 0
    /\ reply = NoReply
    /\ ref_update = 0
    /\ ref_i64 = 0
    /\ ready_events = 1
    /\ loops = <<>>
    /\ NoText

\* The state once ready has run: the counter at 0, both tasks spawned
Init == DriverInit /\ NoText

probe_vars == <<probe_pc, last_update_i64, now_minutes, reply, ref_i64>>
driver_vars == <<driver_pc, wake, resp, matched, outcome, image_req, overlay, image_loc,
                 stores, calls, activity, avatar>>
text_vars == <<json_string, json_before, stripped>>
other_vars == <<ready_events, loops, json_string, json_before, stripped>>
first_loop_vars == <<driver_pc, wake, resp, matched, outcome, image_req, overlay,
                     image_loc, stores, calls>>

\* Time passes.
Tick ==
    /\ clock < StartClock + MaxTicks * TickSecs
    /\ clock' = clock + TickSecs
    /\ UNCHANGED <<cfg, last_update, driver_vars, probe_vars, ref_update, other_vars>>

\* ProbeLoad answered only while the driver sleeps
ProbeLoadBetweenCycles ==
    /\ probe_pc = "idle"
    /\ driver_pc = "sleep"
    /\ probe_pc' = "loaded"
    /\ last_update_i64' = last_update
    /\ ref_i64' = ref_update
    /\ UNCHANGED <<clock, cfg, last_update, driver_vars, now_minutes, reply, ref_update,
                   other_vars>>

\* A probe request arrives: last_update_clone.load
ProbeLoad ==
    /\ probe_pc = "idle"
    /\ probe_pc' = "loaded"
    /\ last_update_i64' = last_update
    /\ ref_i64' = ref_update
    /\ UNCHANGED <<clock, cfg, last_update, driver_vars, now_minutes, reply, ref_update,
                   other_vars>>

\* The closure reads the clock and builds its reply.
ProbeRespond ==
    /\ probe_pc = "loaded"
    /\ probe_pc' = "replied"
    /\ now_minutes' = EpochMinute(clock)
    /\ reply' = ProbeReply(last_update_i64, EpochMinute(clock))
    /\ UNCHANGED <<clock, cfg, last_update, driver_vars, last_update_i64, ref_i64,
                   ref_update, other_vars>>

\* The reply is sent and the closure's locals are dropped.
ProbeDone ==
    /\ probe_pc = "replied"
    /\ probe_pc' = "idle"
    /\ last_update_i64' = 0
    /\ ref_i64' = 0
    /\ now_minutes' = 0
    /\ reply' = NoReply
    /\ UNCHANGED <<clock, cfg, last_update, driver_vars, ref_update, other_vars>>

\* StartCycle with a store of the minute before status is called
StartCycleStoring ==
    /\ driver_pc = "loop"
    /\ driver_pc' = "get"
    /\ last_update' = EpochMinute(clock)
    /\ resp' = NoResp
    /\ matched' = 0
    /\ outcome' = "none"
    /\ calls' = <<>>
    /\ overlay' = None
    /\ image_loc' = None
    /\ stores' = 1
    /\ UNCHANGED <<clock, cfg, wake, image_req, activity, avatar, probe_vars,
                   ref_update, other_vars>>

\* The loop calls status, which calls get, which sends the poll request.
StartCycle ==
    /\ driver_pc = "loop"
    /\ driver_pc' = "get"
    /\ resp' = NoResp
    /\ matched' = 0
    /\ outcome' = "none"
    /\ calls' = <<>>
    /\ overlay' = None
    /\ image_loc' = None
    /\ stores' = 0
    /\ UNCHANGED <<clock, cfg, last_update, wake, image_req, activity, avatar, probe_vars,
                   ref_update, other_vars>>

\* The poll request ends with r; status runs up to its next await or its return.
PollComplete(r) ==
    /\ driver_pc = "get"
    /\ resp' = r
    /\ LET got == Get(r)
           i == ServerLoop(cfg, got.servers, 1)
       IN  CASE got.kind = "panic" ->
                  /\ driver_pc' = "panicked"
                  /\ outcome' = "panic"
                  /\ ref_update' = EpochMinute(clock)
                  /\ UNCHANGED <<matched, image_req, calls, activity>>
             [] got.kind = "err" ->
                  /\ driver_pc' = "store"
                  /\ outcome' = got.err
                  /\ activity' = Some(Fallback)
                  /\ calls' = Append(calls, StatusCall(Fallback))
                  /\ UNCHANGED <<matched, image_req, ref_update>>
             [] got.kind = "ok" /\ i = 0 ->
                  /\ driver_pc' = "store"
                  /\ outcome' = "not_found"
                  /\ UNCHANGED <<matched, image_req, calls, activity, ref_update>>
             [] got.kind = "ok" /\ i > 0 ->
                  /\ driver_pc' = "gen_img"
                  /\ matched' = i
                  /\ activity' = Some(server_info(got.servers[i]))
                  /\ calls' = Append(calls, StatusCall(server_info(got.servers[i])))
                  /\ image_req' = Some([small_mode |-> small_mode(got.servers[i]),
                                        map_image |-> map_image(got.servers[i])])
                  /\ UNCHANGED <<outcome, ref_update>>
    /\ UNCHANGED <<clock, cfg, last_update, wake, overlay, image_loc, stores, avatar,
                   probe_vars, other_vars>>

\* GenImgComplete with the fallback text published on an error
GenImgCompleteFallback(o) ==
    /\ driver_pc = "gen_img"
    /\ IF o.kind = "ok"
       THEN /\ driver_pc' = "attachment"
            /\ overlay' = Some(draw_text(o.width, o.height, image_req[1].small_mode))
            /\ image_loc' = Some(ImagePath)
            /\ UNCHANGED <<outcome, calls, activity>>
       ELSE /\ driver_pc' = "store"
            /\ outcome' = "render_error"
            /\ activity' = Some(Fallback)
            /\ calls' = Append(calls, StatusCall(Fallback))
            /\ overlay' = IF o.kind = "save_err"
                          THEN Some(draw_text(o.width, o.height, image_req[1].small_mode))
                          ELSE overlay
            /\ UNCHANGED image_loc
    /\ image_req' = None
    /\ UNCHANGED <<clock, cfg, last_update, wake, resp, matched, stores, avatar,
                   probe_vars, ref_update, other_vars>>

\* GenImgComplete with the error of gen_img dropped: the file on disk is used
GenImgCompleteAnyway(o) ==
    /\ driver_pc = "gen_img"
    /\ driver_pc' = "attachment"
    /\ IF o.kind \in {"ok", "save_err"}
       THEN overlay' = Some(draw_text(o.width, o.height, image_req[1].small_mode))
       ELSE UNCHANGED overlay
    /\ image_loc' = Some(ImagePath)
    /\ image_req' = None
    /\ UNCHANGED <<clock, cfg, last_update, wake, resp, matched, outcome, stores, calls,
                   activity, avatar, probe_vars, ref_update, other_vars>>

\* gen_img ends: an error leaves status through `?`; the error of the last
\* save comes after draw_text_mut
GenImgComplete(o) ==
    /\ driver_pc = "gen_img"
    /\ IF o.kind = "ok"
       THEN /\ driver_pc' = "attachment"
            /\ overlay' = Some(draw_text(o.width, o.height, image_req[1].small_mode))
            /\ image_loc' = Some(ImagePath)
            /\ UNCHANGED outcome
       ELSE /\ driver_pc' = "store"
            /\ outcome' = "render_error"
            /\ overlay' = IF o.kind = "save_err"
                          THEN Some(draw_text(o.width, o.height, image_req[1].small_mode))
                          ELSE overlay
            /\ UNCHANGED image_loc
    /\ image_req' = None
    /\ UNCHANGED <<clock, cfg, last_update, wake, resp, matched, stores, calls, activity,
                   avatar, probe_vars, ref_update, other_vars>>

\* CreateAttachment::path(image_loc).await.expect(..), then user.edit is called
AttachmentComplete(ok) ==
    /\ driver_pc = "attachment"
    /\ IF ok
       THEN /\ driver_pc' = "edit"
            /\ calls' = Append(calls, AvatarCall(Unwrap(image_loc)))
            /\ UNCHANGED <<outcome, ref_update>>
       ELSE /\ driver_pc' = "panicked"
            /\ outcome' = "panic"
            /\ ref_update' = EpochMinute(clock)
            /\ UNCHANGED calls
    /\ UNCHANGED <<clock, cfg, last_update, wake, resp, matched, image_req, overlay,
                   image_loc, stores, activity, avatar, probe_vars, other_vars>>

\* let _ = user.edit(..).await; return Ok(())
EditComplete(ok) ==
    /\ driver_pc = "edit"
    /\ driver_pc' = "store"
    /\ outcome' = "ok"
    /\ avatar' = IF ok THEN image_loc ELSE avatar
    /\ UNCHANGED <<clock, cfg, last_update, wake, resp, matched, image_req, overlay,
                   image_loc, stores, calls, activity, probe_vars, ref_update, other_vars>>

\* Store with the minute rounded up
StoreNextMinute ==
    /\ driver_pc = "store"
    /\ driver_pc' = "sleep"
    /\ last_update' = EpochMinute(clock) + 1
    /\ ref_update' = EpochMinute(clock) + 1
    /\ stores' = stores + 1
    /\ wake' = clock + SleepSecs
    /\ resp' = NoResp
    /\ UNCHANGED <<clock, cfg, matched, outcome, image_req, overlay, image_loc, calls,
                   activity, avatar, probe_vars, other_vars>>

\* status has returned: last_update.store(..), then the sleep starts
Store ==
    /\ driver_pc = "store"
    /\ driver_pc' = "sleep"
    /\ last_update' = EpochMinute(clock)
    /\ ref_update' = EpochMinute(clock)
    /\ stores' = stores + 1
    /\ wake' = clock + SleepSecs
    /\ resp' = NoResp
    /\ UNCHANGED <<clock, cfg, matched, outcome, image_req, overlay, image_loc, calls,
                   activity, avatar, probe_vars, other_vars>>

\* The sleep ends.
Wake ==
    /\ driver_pc = "sleep"
    /\ clock >= wake
    /\ driver_pc' = "loop"
    /\ wake' = 0
    /\ UNCHANGED <<clock, cfg, last_update, resp, matched, outcome, image_req, overlay,
                   image_loc, stores, calls, activity, avatar, probe_vars, ref_update,
                   other_vars>>

\* What config.txt holds when a later delivery loads it
ReloadConfigs ==
    {[server_name |-> Some("Alpha"), server_id |-> None],
     [server_name |-> Some("Beta"), server_id |-> None]}

\* The locals of a cycle loop and the counter it stores to, as ready makes
\* them, with the configuration ready loaded
NewLoop(c) ==
    [cfg |-> c, pc |-> "loop", last_update |-> 0, wake |-> 0, resp |-> NoResp, matched |-> 0,
     outcome |-> "none", image_req |-> None, overlay |-> None, image_loc |-> None,
     stores |-> 0, calls |-> <<>>]

\* The session-ready event is delivered again and ready runs again: it makes
\* a new counter, loads config.txt as it is then (c), spawns another serve
\* task (the port is taken: the task panics in bind, so no probe reads the
\* new counter) and spawns another cycle loop on c.  The tasks of the earlier
\* deliveries go on.
Ready(c) ==
    /\ ready_events < MaxReady
    /\ ready_events' = ready_events + 1
    /\ loops' = Append(loops, NewLoop(c))
    /\ UNCHANGED <<clock, cfg, last_update, driver_vars, probe_vars, ref_update, text_vars>>

\* The same delivery when config.txt does not load: the unwrap of line 110
\* panics in ready before either spawn.
ReadyLoadFails ==
    /\ ready_events < MaxReady
    /\ ready_events' = ready_events + 1
    /\ UNCHANGED <<clock, cfg, last_update, driver_vars, probe_vars, ref_update, loops,
                   text_vars>>

\* Cycle loops and serve tasks spawned so far: one of each per delivery
\* whose load succeeded
CycleLoops == 1 + Len(loops)
ServeTasks == 1 + Len(loops)

\* What a step of a later loop leaves alone: the first loop's locals and
\* counter, the probe, the clock
later_frame == <<clock, cfg, last_update, first_loop_vars, probe_vars, ref_update,
                 ready_events, text_vars>>

\* The steps of loop l of loops: the steps of the first loop, on the loop's
\* own locals and counter and on the one presence and avatar of the bot.
LaterStartCycle(l) ==
    /\ loops[l].pc = "loop"
    /\ loops' = [loops EXCEPT ![l] = [@ EXCEPT !.pc = "get", !.resp = NoResp,
                     !.matched = 0, !.outcome = "none", !.calls = <<>>,
                     !.overlay = None, !.image_loc = None, !.stores = 0]]
    /\ UNCHANGED <<later_frame, activity, avatar>>

LaterPollComplete(l, r) ==
    /\ loops[l].pc = "get"
    /\ LET got == Get(r)
           i == ServerLoop(loops[l].cfg, got.servers, 1)
           me == [loops[l] EXCEPT !.resp = r]
       IN  CASE got.kind = "panic" ->
                  /\ loops' = [loops EXCEPT ![l] =
                                  [me EXCEPT !.pc = "panicked", !.outcome = "panic"]]
                  /\ UNCHANGED activity
             [] got.kind = "err" ->
                  /\ loops' = [loops EXCEPT ![l] =
                                  [me EXCEPT !.pc = "store", !.outcome = got.err,
                                             !.calls = Append(@, StatusCall(Fallback))]]
                  /\ activity' = Some(Fallback)
             [] got.kind = "ok" /\ i = 0 ->
                  /\ loops' = [loops EXCEPT ![l] =
                                  [me EXCEPT !.pc = "store", !.outcome = "not_found"]]
                  /\ UNCHANGED activity
             [] got.kind = "ok" /\ i > 0 ->
                  /\ loops' = [loops EXCEPT ![l] =
                                  [me EXCEPT !.pc = "gen_img", !.matched = i,
                                     !.calls = Append(@, StatusCall(server_info(got.servers[i]))),
                                     !.image_req =
                                        Some([small_mode |-> small_mode(got.servers[i]),
                                              map_image |-> map_image(got.servers[i])])]]
                  /\ activity' = Some(server_info(got.servers[i]))
    /\ UNCHANGED <<later_frame, avatar>>

LaterGenImgComplete(l, o) ==
    /\ loops[l].pc = "gen_img"
    /\ LET me == [loops[l] EXCEPT !.image_req = None]
           drawn == Some(draw_text(o.width, o.height, loops[l].image_req[1].small_mode))
       IN  loops' = [loops EXCEPT ![l] =
                IF o.kind = "ok"
                THEN [me EXCEPT !.pc = "attachment", !.overlay = drawn,
                                !.image_loc = Some(ImagePath)]
                ELSE [me EXCEPT !.pc = "store", !.outcome = "render_error",
                                !.overlay = IF o.kind = "save_err" THEN drawn ELSE @]]
    /\ UNCHANGED <<later_frame, activity, avatar>>

LaterAttachmentComplete(l, ok) ==
    /\ loops[l].pc = "attachment"
    /\ loops' = [loops EXCEPT ![l] =
            IF ok
            THEN [@ EXCEPT !.pc = "edit",
                           !.calls = Append(@, AvatarCall(Unwrap(loops[l].image_loc)))]
            ELSE [@ EXCEPT !.pc = "panicked", !.outcome = "panic"]]
    /\ UNCHANGED <<later_frame, activity, avatar>>

LaterEditComplete(l, ok) ==
    /\ loops[l].pc = "edit"
    /\ loops' = [loops EXCEPT ![l] = [@ EXCEPT !.pc = "store", !.outcome = "ok"]]
    /\ avatar' = IF ok THEN loops[l].image_loc ELSE avatar
    /\ UNCHANGED <<later_frame, activity>>

LaterStore(l) ==
    /\ loops[l].pc = "store"
    /\ loops' = [loops EXCEPT ![l] =
            [@ EXCEPT !.pc = "sleep", !.last_update = EpochMinute(clock),
                      !.stores = @ + 1, !.wake = clock + SleepSecs, !.resp = NoResp]]
    /\ UNCHANGED <<later_frame, activity, avatar>>

LaterWake(l) ==
    /\ loops[l].pc = "sleep"
    /\ clock >= loops[l].wake
    /\ loops' = [loops EXCEPT ![l] = [@ EXCEPT !.pc = "loop", !.wake = 0]]
    /\ UNCHANGED <<later_frame, activity, avatar>>

\* Lines 168-171 applied to a text in hand.
StripStep ==
    /\ stripped < MaxStrips
    /\ Len(json_string) > 0
    /\ json_before' = json_string
    /\ json_string' = StripBom(json_string)
    /\ stripped' = stripped + 1
    /\ UNCHANGED <<clock, cfg, last_update, driver_vars, probe_vars, ref_update,
                   ready_events, loops>>

\* The cycle driver alone, over every poll result.
NextCycle ==
    \/ Tick
    \/ StartCycle
    \/ \E r \in PollResults : PollComplete(r)
    \/ \E o \in RenderResults : GenImgComplete(o)
    \/ \E ok \in BOOLEAN : AttachmentComplete(ok)
    \/ \E ok \in BOOLEAN : EditComplete(ok)
    \/ Store
    \/ Wake

SpecCycle == Init /\ [][NextCycle]_vars

\* The cycle driver monitoring "Alpha", over every map name.
InitMapKey == Init /\ cfg = [server_name |-> Some("Alpha"), server_id |-> None]

NextMapKey ==
    \/ Tick
    \/ StartCycle
    \/ \E r \in PollMapNames : PollComplete(r)
    \/ \E o \in RenderResults : GenImgComplete(o)
    \/ \E ok \in BOOLEAN : AttachmentComplete(ok)
    \/ \E ok \in BOOLEAN : EditComplete(ok)
    \/ Store
    \/ Wake

SpecMapKey == InitMapKey /\ [][NextMapKey]_vars

\* The cycle driver monitoring "Alpha", over every image size.
PollRender == {Response(TRUE, <<Doc(<<e>>)>>) : e \in {Alpha1, Alpha2}}

NextRender ==
    \/ Tick
    \/ StartCycle
    \/ \E r \in PollRender : PollComplete(r)
    \/ \E o \in RenderSizes : GenImgComplete(o)
    \/ \E ok \in BOOLEAN : AttachmentComplete(ok)
    \/ \E ok \in BOOLEAN : EditComplete(ok)
    \/ Store
    \/ Wake

SpecRender == InitMapKey /\ [][NextRender]_vars

\* The BOM strip applied, and applied again, to every body that is not empty.
InitBom ==
    /\ DriverInit
    /\ cfg = [server_name |-> Some("Alpha"), server_id |-> None]
    /\ json_string \in Bodies \ {<<>>}
    /\ json_before = json_string
    /\ stripped = 0

NextBom == StripStep

SpecBom == InitBom /\ [][NextBom]_vars

\* The cycle driver and the probe handler, running concurrently.
Next ==
    \/ Tick
    \/ ProbeLoad
    \/ ProbeRespond
    \/ ProbeDone
    \/ StartCycle
    \/ \E r \in PollSample : PollComplete(r)
    \/ \E o \in RenderResults : GenImgComplete(o)
    \/ \E ok \in BOOLEAN : AttachmentComplete(ok)
    \/ \E ok \in BOOLEAN : EditComplete(ok)
    \/ Store
    \/ Wake

Spec == Init /\ [][Next]_vars

\* The cycle loops of one and of more deliveries of the session-ready event,
\* on one poll result and one render result of each kind of ending.  The
\* probe reads the first counter only; its steps with one loop are in Spec.
PollReady ==
    {SendErr, Response(TRUE, <<>>), Response(TRUE, <<Doc(<<Alpha2>>)>>),
     Response(TRUE, <<Doc(<<Beta3, Alpha1>>)>>)}

RenderReady == {RenderErr("download_err"), Rendered(1920, 1080)}

NextReady ==
    \/ Tick
    \/ \E c \in ReloadConfigs : Ready(c)
    \/ ReadyLoadFails
    \/ StartCycle
    \/ \E r \in PollReady : PollComplete(r)
    \/ \E o \in RenderReady : GenImgComplete(o)
    \/ \E ok \in BOOLEAN : AttachmentComplete(ok)
    \/ \E ok \in BOOLEAN : EditComplete(ok)
    \/ Store
    \/ Wake
    \/ \E l \in 1..Len(loops) :
          \/ LaterStartCycle(l)
          \/ \E r \in PollReady : LaterPollComplete(l, r)
          \/ \E o \in RenderReady : LaterGenImgComplete(l, o)
          \/ \E ok \in BOOLEAN : LaterAttachmentComplete(l, ok)
          \/ \E ok \in BOOLEAN : LaterEditComplete(l, ok)
          \/ LaterStore(l)
          \/ LaterWake(l)

SpecReady == InitMapKey /\ [][NextReady]_vars

-----------------------------------------------------------------------------
(* Properties *)

\* Positions of the driver inside its call of status
InStatus == {"get", "gen_img", "attachment", "edit"}

\* The value a decimal text denotes, read digit by digit
DigitValue(c) == CASE c = "0" -> 0 [] c = "1" -> 1 [] c = "2" -> 2 [] c = "3" -> 3
                   [] c = "4" -> 4 [] c = "5" -> 5 [] c = "6" -> 6 [] c = "7" -> 7
                   [] c = "8" -> 8 [] c = "9" -> 9

RECURSIVE Unsigned(_)
Unsigned(s) == IF Len(s) = 0 THEN 0
               ELSE 10 * Unsigned(SubSeq(s, 1, Len(s) - 1)) + DigitValue(s[Len(s)])

Decimal(s) == IF Len(s) > 0 /\ s[1] = "-" THEN 0 - Unsigned(Tail(s)) ELSE Unsigned(s)

\* C1: whatever way a cycle's call of status ends, the driver goes on to the
\* liveness update, which stores the current epoch-minute before the sleep
\* begins.
C1_LivenessUpdatedEveryCycle ==
    [][ /\ (driver_pc \in InStatus /\ driver_pc' \notin InStatus) => driver_pc' = "store"
        /\ (driver_pc = "store" /\ driver_pc' # "store")
              => (driver_pc' = "sleep" /\ last_update' * 60 <= clock'
                                      /\ clock' < (last_update' + 1) * 60) ]_vars

\* C2: a probe reply is 200 exactly when the elapsed minutes, the minute the
\* request read from the clock minus the value it loaded from last_update,
\* are at most 5, and 503 exactly when they exceed 5; the body is the decimal
\* text of that same number.
C2_ProbeThreshold ==
    probe_pc = "replied" =>
        LET elapsed == now_minutes - last_update_i64
        IN  /\ now_minutes * 60 <= clock
            /\ reply.status \in {200, 503}
            /\ reply.status = 200 <=> elapsed <= 5
            /\ reply.status = 503 <=> elapsed > 5
            /\ Decimal(reply.body) = elapsed

\* C2 witness: a request answered at the boundary, five minutes after the
\* last update.
C2_Witness ==
    /\ probe_pc = "replied"
    /\ last_update_i64 > 0
    /\ now_minutes - last_update_i64 = 5
    /\ reply.status = 200
    /\ reply.body = <<"5">>

\* C3: no failure inside a cycle stops the loop: the driver task is always
\* at a position from which the loop goes on.
C3_LoopNeverStops ==
    driver_pc \in InStatus \cup {"loop", "store", "sleep"}

\* The poll result in hand decoded into a server list
Decoded == resp.kind = "response" /\ Get(resp).kind = "ok"
PolledList == Get(resp).servers

\* The matching rule: by name when a name is configured, else by id when an
\* id is configured, else nothing
Selects(statics, e) ==
    IF statics.server_name # None THEN e.name = statics.server_name[1]
    ELSE IF statics.server_id # None THEN e.id = statics.server_id[1]
    ELSE FALSE

Selected(statics, list) == {i \in 1..Len(list) : Selects(statics, list[i])}

IsSetActivity(c) == c.op = "set_activity"

\* C4: the entry the cycle goes on with is one the matching rule selects
\* (by name when a name is configured, the id then being ignored; by id
\* otherwise); when the rule selects no entry, and so always when neither
\* name nor id is configured, the cycle ends with the not-found error.
C4_MatcherRule ==
    Decoded =>
        LET sel == Selected(cfg, PolledList)
        IN  /\ sel = {} => (matched = 0 /\ driver_pc = "store" /\ outcome = "not_found")
            /\ sel # {} => matched \in sel
            /\ (cfg.server_name = None /\ cfg.server_id = None) => outcome = "not_found"

\* C4 witness: name and id are both configured and point at different
\* entries; the entry with the name is taken.
C4_Witness ==
    /\ cfg = [server_name |-> Some("Alpha"), server_id |-> Some(3)]
    /\ Decoded
    /\ PolledList = <<Beta3, Alpha1>>
    /\ driver_pc = "gen_img"
    /\ matched = 2

\* C5: when several entries match, the cycle uses the first in list order
\* and no other: the one status text, and the render request, are that
\* entry's.
C5_FirstMatchOnly ==
    (Decoded /\ Selected(cfg, PolledList) # {}) =>
        LET sel == Selected(cfg, PolledList)
            first == CHOOSE i \in sel : \A j \in sel : i <= j
            entry == PolledList[first]
        IN  /\ matched = first
            /\ SelectSeq(calls, IsSetActivity) = <<StatusCall(server_info(entry))>>
            /\ activity = Some(server_info(entry))
            /\ image_req \in {None, Some([small_mode |-> small_mode(entry),
                                          map_image |-> map_image(entry)])}
            /\ Len(calls) <= 2

\* C5 witness: two entries named alike; the cycle has finished with the first.
C5_Witness ==
    /\ cfg.server_name = Some("Alpha")
    /\ Decoded
    /\ PolledList = <<Alpha1, Alpha2>>
    /\ driver_pc = "store"
    /\ outcome = "ok"
    /\ matched = 1
    /\ calls = <<StatusCall(<<"4", "0", "/", "6", "4", " - ", "Amiens">>), AvatarCall(ImagePath)>>

\* The poll of the cycle failed at the transport level: in send, or while
\* the body was read
TransportFailed == resp.kind = "send_err" \/ (resp.kind = "response" /\ ~resp.text_ok)

\* C6 as claimed: a cycle whose poll fails at the transport level, in send
\* or in the read of the body, publishes the fallback text once and no
\* avatar, goes on to the liveness update, and leaves probe replies a
\* function of the loaded minute and the clock alone.
C6_TransportFailure ==
    /\ TransportFailed =>
          /\ driver_pc = "store"
          /\ outcome = "network_error"
          /\ calls = <<StatusCall(Fallback)>>
          /\ activity = Some(Fallback)
    /\ (outcome = "network_error") =>
          /\ driver_pc \in {"store", "sleep", "loop"}
          /\ calls = <<StatusCall(Fallback)>>
          /\ activity = Some(Fallback)
          /\ driver_pc = "sleep" =>
                (last_update * 60 <= wake - 60 /\ wake - 60 < (last_update + 1) * 60)
          /\ driver_pc = "loop" => last_update > 0
          /\ probe_pc = "replied" =>
                reply.status = (IF now_minutes - last_update_i64 > 5 THEN 503 ELSE 200)

\* C7 as claimed: after a render failure the publisher has been given the
\* fallback text.
C7_FallbackAfterRenderFailure ==
    (outcome = "render_error") =>
        \E i \in 1..Len(calls) : calls[i] = StatusCall(Fallback)

\* C7: in a cycle where an entry matched and the render then failed, the
\* publisher was invoked exactly once, before the render, with the matched
\* entry's player-count text; neither the fallback text nor an avatar is
\* published, and the status text stands when the liveness update follows.
C7_RenderFailureKeepsStatus ==
    (outcome = "render_error") =>
        /\ matched > 0
        /\ Len(calls) = 1
        /\ calls[1].op = "set_activity"
        /\ calls[1].arg # Fallback
        /\ activity = Some(calls[1].arg)
        /\ driver_pc \in {"store", "sleep", "loop"}
        /\ driver_pc = "store" => calls[1].arg = server_info(PolledList[matched])

\* C7 witness: the render has failed and the update is about to be stored.
C7_Witness ==
    /\ outcome = "render_error"
    /\ driver_pc = "store"
    /\ matched > 0
    /\ activity = Some(<<"4", "0", "/", "6", "4", " - ", "Amiens">>)

\* C8: after a cycle whose server list held no matching entry, a status
\* text on show is the fallback text, not an earlier cycle's.
C8_FallbackWhenNotFound ==
    (outcome = "not_found" /\ activity # None) => activity = Some(Fallback)

\* C9: get returns a value for every poll result: the network error for a
\* failed send, the parse error for every body that does not decode once a
\* leading U+FEFF is taken off, the empty body included.
LeadingBomOff(body) == IF Len(body) > 0 /\ body[1] = Bom THEN Tail(body) ELSE body

C9_PollerTotal ==
    (resp.kind # "none") =>
        /\ resp.kind = "send_err" => outcome = "network_error"
        /\ (resp.kind = "response" /\ ~FromStr(LeadingBomOff(JsonString(resp))).ok)
              => (outcome = "parse_error" /\ driver_pc = "store")

\* Everything after the last '/', or the whole text when it holds no '/'
AfterLastSlash(s) ==
    LET slashes == {i \in 1..Len(s) : s[i] = "/"}
    IN  IF slashes = {} THEN s
        ELSE SubSeq(s, (CHOOSE i \in slashes : \A j \in slashes : j <= i) + 1, Len(s))

\* What a cycle publishes and requests for entry e when it looks up key
LookedUp(table, key) ==
    IF Len(key) = 1 /\ key[1] \in DOMAIN table THEN <<table[key[1]]>> ELSE key

UsesKey(key, e) ==
    /\ activity = Some(Display(e.current_players) \o <<"/">> \o Display(e.max_players)
                         \o <<" - ">> \o LookedUp(maps, key))
    /\ image_req # None
    /\ image_req[1].map_image = LookedUp(images, key)

\* C10 as claimed: for every map name, one ending in '/' included, the key
\* looked up is what follows the last '/', or the whole name when it holds
\* no '/'.
C10_KeyAfterLastSlash ==
    (driver_pc = "gen_img") =>
        UsesKey(AfterLastSlash(PolledList[matched].map_name), PolledList[matched])

\* C10: for every map name that does not end in '/', the key looked up is
\* what follows the last '/', or the whole name when it holds no '/'; for a
\* map name that ends in '/' the key is the whole map name.
C10_KeyOfMapName ==
    (driver_pc = "gen_img") =>
        LET e == PolledList[matched]
            m == e.map_name
        IN  IF Len(m) > 0 /\ m[Len(m)] = "/"
            THEN UsesKey(m, e)
            ELSE UsesKey(AfterLastSlash(m), e)

\* C10 witness: the path of five segments resolves to its last segment,
\* which the display-name table holds.
C10_Witness ==
    /\ driver_pc = "gen_img"
    /\ PolledList[matched].map_name =
          <<"Xpack2", "/", "Levels", "/", "MP", "/", "MP_Bridge", "/", "MP_Bridge">>
    /\ activity = Some(<<"4", "0", "/", "6", "4", " - ", "Brusilov Keep">>)

\* The key status looks up for a map name (C10)
KeyOf(m) == IF Len(m) > 0 /\ m[Len(m)] = "/" THEN m ELSE AfterLastSlash(m)

InTable(table, key) == Len(key) = 1 /\ key[1] \in DOMAIN table

PlayerCount(e) == Display(e.current_players) \o <<"/">> \o Display(e.max_players) \o <<" - ">>

\* C11 as claimed: for every matched server whose resolved map key is in no
\* table, the display name and the image URL are the raw mapName field, the
\* full path when it is a path.
C11_FallbackRawMapName ==
    (driver_pc = "gen_img") =>
        LET e == PolledList[matched]
        IN  /\ ~InTable(maps, KeyOf(e.map_name)) =>
                  activity = Some(PlayerCount(e) \o e.map_name)
            /\ ~InTable(images, KeyOf(e.map_name)) =>
                  image_req[1].map_image = e.map_name

\* C11: for every matched server, each of the three lookups falls back on
\* its own and the cycle goes on to the render: a resolved map key absent
\* from the display-name table is itself the display name, one absent from
\* the image table is itself the image URL (the resolved key, not the path it
\* was taken from), and a mode key absent from the abbreviation table gives
\* the empty abbreviation.
C11_FallbackResolvedKey ==
    (Decoded /\ Selected(cfg, PolledList) # {}) =>
        /\ outcome \notin {"parse_error", "not_found", "network_error"}
        /\ driver_pc = "panicked" => image_loc # None
        /\ (driver_pc = "gen_img") =>
              LET e == PolledList[matched]
                  k == KeyOf(e.map_name)
              IN  /\ ~InTable(maps, k) => activity = Some(PlayerCount(e) \o k)
                  /\ ~InTable(images, k) => image_req[1].map_image = k
                  /\ ~InTable(small_modes, e.game_mode) => image_req[1].small_mode = <<>>
                  /\ InTable(maps, k) => activity = Some(PlayerCount(e) \o <<maps[k[1]]>>)
                  /\ InTable(small_modes, e.game_mode) =>
                        image_req[1].small_mode = <<small_modes[e.game_mode[1]]>>

\* C11 witness: the map is a path whose last segment no table holds, the
\* mode is one the abbreviation table does not hold.
C11_Witness ==
    /\ driver_pc = "gen_img"
    /\ PolledList[matched].map_name = <<"MP_Bridge", "/", "Xpack2">>
    /\ PolledList[matched].game_mode = <<"Custom0">>
    /\ activity = Some(<<"4", "0", "/", "6", "4", " - ", "Xpack2">>)
    /\ image_req = Some([small_mode |-> <<>>, map_image |-> <<"Xpack2">>])

\* C12: last_update never decreases; every change of it is a counted store;
\* a cycle stores at most once, in the step from "store" to the sleep, when
\* the cycle's outcome is set; no step taken while status is running (poll,
\* match, render, publish) stores.
C12_StoreOncePerCycle ==
    [][ /\ last_update' >= last_update
        /\ last_update' # last_update => stores' = stores + 1
        /\ stores' <= 1
        /\ stores' > stores =>
              /\ driver_pc = "store" /\ driver_pc' = "sleep"
              /\ outcome # "none" /\ outcome' = outcome
        /\ (driver_pc \in InStatus \/ driver_pc = "loop") =>
              (last_update' = last_update /\ stores' <= stores) ]_vars

\* C12 witness: a later cycle, ended by a render error, has stored a minute
\* after the one the first cycle stored.
C12_Witness ==
    /\ driver_pc = "sleep"
    /\ stores = 1
    /\ outcome = "render_error"
    /\ last_update > EpochMinute(StartClock) + 1

\* C13: in every reachable state, whatever the driver is doing (waiting for
\* the poll, the render, the avatar file, the profile edit or the sleep, or
\* gone), the next step of the probe handler can be taken; the value a
\* request loads is the value last_update holds at that moment, and the
\* reply is built from it.
C13_ProbeAnswerable ==
    /\ [](/\ probe_pc = "idle" => ENABLED ProbeLoad
          /\ probe_pc = "loaded" => ENABLED ProbeRespond
          /\ probe_pc = "replied" => ENABLED ProbeDone)
    /\ [][ /\ (probe_pc = "idle" /\ probe_pc' = "loaded") =>
                  last_update_i64' = last_update
           /\ (probe_pc = "loaded" /\ probe_pc' = "replied") =>
                  reply' = ProbeReply(last_update_i64, EpochMinute(clock)) ]_vars

\* C13 witness: a request was answered healthy, from the value the last
\* cycle stored, while the driver waits for the render of a later cycle.
C13_Witness ==
    /\ driver_pc = "gen_img"
    /\ probe_pc = "replied"
    /\ last_update_i64 = last_update
    /\ last_update > 0
    /\ reply.status = 200

\* C14 as claimed: however many times the session-ready event is delivered,
\* one cycle loop and one probe server task have been started.
C14_StartedOnce ==
    /\ CycleLoops = 1
    /\ ServeTasks = 1

\* C15 as claimed: a probe request gets the status and body it gets in the
\* run whose cycles have ended at the same times and have all succeeded:
\* ref_update holds the minute of the latest cycle end, which is what that run
\* has stored, and ref_i64 what the request loads from it.
C15_ProbeIgnoresOutcomes ==
    probe_pc = "replied" => reply = ProbeReply(ref_i64, now_minutes)

\* The first position of token c in text s; Len(s) + 1 when there is none
First(s, c) ==
    LET at == {i \in 1..Len(s) : s[i] = c}
    IN  IF at = {} THEN Len(s) + 1 ELSE CHOOSE i \in at : \A j \in at : i <= j

Abbreviation(mode) == IF InTable(small_modes, mode) THEN <<small_modes[mode[1]]>> ELSE <<>>

\* C16: for every matched server the published status text reads, up to its
\* first '/', the decimal of currentPlayers, from there to its first " - "
\* the decimal of maxPlayers, and after that the display name; the text
\* handed to the render, and the text the render draws, is the abbreviation
\* of gameMode.  For Alpha1 under target name "Alpha" the status text is
\* "40/64 - Amiens" and the overlay text "CQ".
C16_StatusTextAndOverlay ==
    (Decoded /\ matched > 0) =>
        LET e == PolledList[matched]
            text == Unwrap(activity)
            slash == First(text, "/")
            dash == First(text, " - ")
        IN  /\ (driver_pc = "gen_img") =>
                  /\ slash < dash /\ dash <= Len(text)
                  /\ Decimal(SubSeq(text, 1, slash - 1)) = e.current_players
                  /\ Decimal(SubSeq(text, slash + 1, dash - 1)) = e.max_players
                  /\ SubSeq(text, dash + 1, Len(text)) = LookedUp(maps, KeyOf(e.map_name))
                  /\ calls = <<StatusCall(text)>>
                  /\ image_req[1].small_mode = Abbreviation(e.game_mode)
                  /\ e = Alpha1 =>
                        /\ text = <<"4", "0", "/", "6", "4", " - ", "Amiens">>
                        /\ image_req[1].small_mode = <<"CQ">>
            /\ (driver_pc = "attachment") =>
                  /\ overlay[1].text = Abbreviation(e.game_mode)
                  /\ e = Alpha1 => overlay[1].text = <<"CQ">>

\* C16 witness: Alpha1 was matched by name, its status text is published
\* and its overlay text drawn.
C16_Witness ==
    /\ cfg.server_name = Some("Alpha")
    /\ Decoded /\ matched > 0 /\ PolledList[matched] = Alpha1
    /\ driver_pc = "attachment"
    /\ activity = Some(<<"4", "0", "/", "6", "4", " - ", "Amiens">>)
    /\ overlay # None /\ overlay[1].text = <<"CQ">>

\* A publisher call that carries the cycle's results
CarriesResults(c) ==
    \/ c.op = "edit_avatar"
    \/ c.op = "set_activity" /\ c.arg # Fallback

\* The render of the current cycle has returned successfully
RenderReturned == overlay # None /\ image_loc # None

\* C17 as claimed: no publisher call carrying the cycle's results is made
\* before the render of the cycle has returned successfully.
C17_PublishAfterRender ==
    (\E i \in 1..Len(calls) : CarriesResults(calls[i])) => RenderReturned

\* C17: within a cycle the player-count status text is published after the
\* match and before the render starts; the avatar is published only after
\* the render has returned successfully, with the path it returned, and after
\* the status text; a cycle whose render fails has published the
\* player-count status text and no avatar.
C17_AvatarAfterRender ==
    /\ \A i \in 1..Len(calls) :
          calls[i].op = "edit_avatar" =>
              /\ RenderReturned
              /\ calls[i].arg = Unwrap(image_loc)
              /\ i = 2 /\ calls[1].op = "set_activity" /\ CarriesResults(calls[1])
    /\ (driver_pc = "gen_img") =>
          /\ ~RenderReturned
          /\ calls = <<StatusCall(server_info(PolledList[matched]))>>
    /\ (outcome = "render_error") =>
          /\ ~RenderReturned
          /\ Len(calls) = 1 /\ calls[1].op = "set_activity" /\ CarriesResults(calls[1])

\* C17 witness: the render returned and the avatar call followed the status
\* text of the same cycle.
C17_Witness ==
    /\ driver_pc = "edit"
    /\ RenderReturned
    /\ calls = <<StatusCall(<<"4", "0", "/", "6", "4", " - ", "Amiens">>),
                 AvatarCall(<<"./map_mode.jpg">>)>>

\* The bytes of a text, unit by unit
RECURSIVE AllBytes(_)
AllBytes(s) == IF Len(s) = 0 THEN <<>> ELSE Bytes(s[1]) \o AllBytes(Tail(s))

\* C18 as claimed: the strip acts only on a first byte 239 and then takes off
\* the three bytes of the BOM; on any other first byte it changes nothing;
\* applied to its own output it changes nothing.
C18_StripIdempotent ==
    /\ (stripped >= 1) =>
          IF AllBytes(json_before)[1] = 239
          THEN /\ SubSeq(AllBytes(json_before), 1, 3) = <<239, 187, 191>>
               /\ AllBytes(json_string) =
                     SubSeq(AllBytes(json_before), 4, Len(AllBytes(json_before)))
          ELSE json_string = json_before
    /\ (stripped = 2) => json_string = json_before

\* C18: the strip acts exactly when the first byte of the body is 239 and
\* then takes off the first character, three bytes long, be it U+FEFF or
\* another character led by 239; on any other first byte it changes nothing;
\* applied to its own output, when that is not empty, it changes nothing
\* exactly when the output does not begin with byte 239, and takes off one
\* more character when it does.
C18_StripFirstChar ==
    (stripped >= 1) =>
        LET bytes == AllBytes(json_before)
        IN  IF bytes[1] = 239
            THEN /\ json_string = Tail(json_before)
                 /\ AllBytes(json_string) = SubSeq(bytes, 4, Len(bytes))
                 /\ json_string # json_before
            ELSE json_string = json_before

\* C18 witness: the strip was applied to its own output, which began with a
\* second BOM, and took that off too.
C18_Witness ==
    /\ stripped = 2
    /\ json_before = <<Bom, Doc(<<Alpha1>>)>>
    /\ json_string = <<Doc(<<Alpha1>>)>>

\* (h as f32 / 4.8) as i32, computed in f32 arithmetic, for the heights of
\* Heights
F32Rows == 1 :> 0 @@ 24 :> 5 @@ 48 :> 10 @@ 72 :> 14 @@ 100 :> 20 @@ 1080 :> 224

\* C19 as claimed: the overlay origin of an image of width w and height h is
\* (floor(2w/7), floor(5h/24)) and the path returned is the fixed one.
C19_OriginExact ==
    (overlay # None) =>
        LET o == Unwrap(overlay)
        IN  /\ o.x = (2 * o.img_size.x) \div 7
            /\ o.y = (5 * o.img_size.y) \div 24
            /\ image_loc # None => image_loc = Some(<<"./map_mode.jpg">>)
            /\ driver_pc = "attachment" => image_loc = Some(<<"./map_mode.jpg">>)

\* C19: the overlay origin is a function of the image size only, whatever
\* the abbreviation and whatever was rendered before: x is floor(2w/7); y is
\* the f32 quotient h / 4.8 truncated, which is floor(5h/24) for every h
\* that is not a multiple of 24 and floor(5h/24) or one less for a multiple
\* of 24 (14 for h = 72, 224 for h = 1080); the path returned is the fixed
\* one.
C19_OriginF32 ==
    (overlay # None) =>
        LET o == Unwrap(overlay)
            w == o.img_size.x
            h == o.img_size.y
        IN  /\ o.x = (2 * w) \div 7
            /\ o.y \in {(5 * h) \div 24, (5 * h) \div 24 - 1}
            /\ h % 24 # 0 => o.y = (5 * h) \div 24
            /\ h \in DOMAIN F32Rows => o.y = F32Rows[h]
            /\ image_loc # None => image_loc = Some(<<"./map_mode.jpg">>)
            /\ driver_pc = "attachment" => image_loc = Some(<<"./map_mode.jpg">>)

\* C19 witness: in a cycle after the first, an image 64 wide and 72 high
\* got the text "RS" at (18, 14).
C19_Witness ==
    /\ last_update > 0
    /\ overlay = Some([img_size |-> [x |-> 64, y |-> 72], x |-> 18, y |-> 14,
                       text |-> <<"RS">>])
    /\ image_loc = Some(<<"./map_mode.jpg">>)

\* C20: until the first cycle has ended last_update is 0; a request
\* answered while it is 0 gets 503 and, as body, the decimal of the epoch
\* minute it read; a 200 was built from a stored value; the step that takes
\* last_update off 0 is the store that follows the first cycle's status call.
C20_UnhealthyUntilFirstStore ==
    /\ [](/\ ref_update = 0 => last_update = 0
          /\ (probe_pc = "replied" /\ last_update = 0) =>
                /\ reply.status = 503
                /\ Decimal(reply.body) = now_minutes
                /\ now_minutes >= EpochMinute(StartClock)
                /\ now_minutes <= EpochMinute(clock)
          /\ reply.status = 200 => (last_update_i64 > 0 /\ last_update > 0))
    /\ [][ (last_update = 0 /\ last_update' # 0) =>
              (driver_pc = "store" /\ outcome # "none") ]_vars

\* C20 witness: a request is answered 503 with the epoch minute while the
\* first cycle still waits for its poll, nothing having failed.
C20_Witness ==
    /\ driver_pc = "get"
    /\ ref_update = 0
    /\ outcome = "none"
    /\ probe_pc = "replied"
    /\ reply = [status |-> 503, body |-> <<"1", "0">>]

\* C21: the handler loads last_update first and reads the clock after, and
\* the value it loaded is kept while a store lands in between; the loaded
\* minute never exceeds the minute of the clock, so the elapsed value of every
\* reply is at least 0 and its text carries no minus sign.
C21_ElapsedNeverNegative ==
    /\ [](/\ probe_pc = "loaded" => last_update_i64 <= EpochMinute(clock)
          /\ probe_pc = "replied" =>
                /\ now_minutes - last_update_i64 >= 0
                /\ Decimal(reply.body) = now_minutes - last_update_i64
                /\ reply.body[1] # "-")
    /\ [][ /\ (probe_pc = "idle" /\ probe_pc' = "loaded") =>
                  (last_update_i64' = last_update /\ now_minutes' = now_minutes)
           /\ (probe_pc = "loaded" /\ probe_pc' = "loaded") =>
                  last_update_i64' = last_update_i64
           /\ (probe_pc = "loaded" /\ probe_pc' = "replied") =>
                  /\ last_update_i64' = last_update_i64
                  /\ now_minutes' = EpochMinute(clock) ]_vars

\* C21 witness: a store landed after the request's load of an earlier stored
\* minute, and the reply reports the minutes since the loaded one.
C21_Witness ==
    /\ probe_pc = "replied"
    /\ last_update_i64 > 0
    /\ last_update_i64 < last_update
    /\ now_minutes = last_update
    /\ Decimal(reply.body) = last_update - last_update_i64

=============================================================================
